---- MODULE Spec2Model ----
(***************************************************************************)
(* Model of the BIP39 seed-phrase detector (bip39_words.py) and of the     *)
(* parts of YouTubeScamDetector (youtube_scam_detector.py) that call it.   *)
(*                                                                         *)
(* A Python str is a sequence of characters; a character is a one-symbol   *)
(* TLA+ string.  A word list / token list is a sequence of such strings.   *)
(***************************************************************************)
EXTENDS Integers, Sequences, FiniteSets, TLC

\* config.MIN_SEED_WORDS
MIN_SEED_WORDS == 12
\* config.MAX_RESULTS_PER_PAGE
MAX_RESULTS_PER_PAGE == 100
\* config.MAX_PAGES_PER_VIDEO
MAX_PAGES_PER_VIDEO == 10

(***************************************************************************)
(* Bounds of the checked input families.                                   *)
(***************************************************************************)
\* longest typed phrase of a detector input text, in tokens
MaxTokens == 16
\* most non-dictionary words inside the typed phrase
MaxNoise == 3
\* number of non-dictionary tokens that may follow the typed phrase
TrailingNoise == 12
\* longest raw text given to the tokenizer alone
MaxChars == 5
\* longest word-list file content, in characters
MaxFileChars == 5
\* longest list of comments to check
MaxComments == 2
MaxDeleteCalls == 2
MaxEntered == 2

(***************************************************************************)
(* Characters.                                                             *)
(***************************************************************************)
LowerLetters == {"a", "b", "c", "x"}
UpperLetters == {"A", "B", "C"}
\* characters matched by \s and stripped by str.strip()/str.split()
Whitespace == {" ", "\t", "\n"}
\* digits, punctuation, and a non-ASCII (CJK) character
OtherChars == {"7", ",", "#", "zh"}

IsAsciiLetter(c) == c \in LowerLetters \cup UpperLetters

Range(f) == {f[i] : i \in DOMAIN f}

\* str.lower() on one character
LowerChar(c) ==
    CASE c = "A" -> "a"
      [] c = "B" -> "b"
      [] c = "C" -> "c"
      [] OTHER -> c

\* str.lower()
Lower(s) == [i \in 1..Len(s) |-> LowerChar(s[i])]

\* str.lstrip()
RECURSIVE LStrip(_)
LStrip(s) ==
    IF s # <<>> /\ Head(s) \in Whitespace THEN LStrip(Tail(s)) ELSE s

\* str.rstrip()
RECURSIVE RStrip(_)
RStrip(s) ==
    IF s # <<>> /\ s[Len(s)] \in Whitespace
    THEN RStrip(SubSeq(s, 1, Len(s) - 1))
    ELSE s

\* str.strip()
Strip(s) == RStrip(LStrip(s))

\* the substitution with the empty string as replacement
ReSubNonLetters_delete(text) ==
    SelectSeq(text, LAMBDA c : IsAsciiLetter(c) \/ c \in Whitespace)

\* re.sub(r'[^a-zA-Z\s]', ' ', text)
ReSubNonLetters(text) ==
    [i \in 1..Len(text) |->
        IF IsAsciiLetter(text[i]) \/ text[i] \in Whitespace
        THEN text[i] ELSE " "]

\* str.split(): split on runs of whitespace, no empty strings in the result.
\* cur is the word being accumulated, acc the words finished so far.
RECURSIVE SplitFrom(_, _, _)
SplitFrom(s, cur, acc) ==
    IF s = <<>>
    THEN IF cur = <<>> THEN acc ELSE Append(acc, cur)
    ELSE IF Head(s) \in Whitespace
         THEN SplitFrom(Tail(s), <<>>, IF cur = <<>> THEN acc ELSE Append(acc, cur))
         ELSE SplitFrom(Tail(s), Append(cur, Head(s)), acc)

Split(s) == SplitFrom(s, <<>>, <<>>)

\* [word for word in ws if word in D]
RECURSIVE Filter(_, _)
Filter(ws, D) ==
    IF ws = <<>> THEN <<>>
    ELSE IF Head(ws) \in D THEN <<Head(ws)>> \o Filter(Tail(ws), D)
    ELSE Filter(Tail(ws), D)

(***************************************************************************)
(* bip39_words.load_bip39_words                                            *)
(*                                                                         *)
(* The file at filepath is a record: kind "missing" (os.path.exists is     *)
(* False), "unreadable" (open, read or UTF-8 decoding raises) or "ok",     *)
(* with its decoded content.  The result is a record: raised tells whether *)
(* an exception left the function, value is the set returned.              *)
(***************************************************************************)
\* iteration over the text file: the lines, each with its "\n" when it has one
RECURSIVE LinesFrom(_, _, _)
LinesFrom(content, cur, acc) ==
    IF content = <<>>
    THEN IF cur = <<>> THEN acc ELSE Append(acc, cur)
    ELSE IF Head(content) = "\n"
         THEN LinesFrom(Tail(content), <<>>, Append(acc, Append(cur, "\n")))
         ELSE LinesFrom(Tail(content), Append(cur, Head(content)), acc)

FileLines(content) == LinesFrom(content, <<>>, <<>>)

\* the body of the try block: the open / read may raise
ReadWords(file) ==
    IF file.kind = "unreadable"
    THEN [raised |-> TRUE, value |-> {}]
    ELSE [raised |-> FALSE,
          value |-> { Strip(line) : line \in
                        { l \in Range(FileLines(file.content)) : Strip(l) # <<>> } }]

\* load_bip39_words without the except clause
load_bip39_words_noExcept(file) ==
    IF file.kind = "missing" THEN [raised |-> FALSE, value |-> {}]
    ELSE ReadWords(file)

load_bip39_words(file) ==
    IF file.kind = "missing" THEN [raised |-> FALSE, value |-> {}]
    ELSE LET attempt == ReadWords(file)
         IN  IF attempt.raised
             THEN [raised |-> FALSE, value |-> {}]
             ELSE attempt

\* Join with the separator left out ("".join)
RECURSIVE Join_noSeparator(_)
Join_noSeparator(ws) ==
    IF ws = <<>> THEN <<>> ELSE ws[1] \o Join_noSeparator(Tail(ws))

\* " ".join(words)
RECURSIVE Join(_)
Join(ws) ==
    IF ws = <<>> THEN <<>>
    ELSE IF Len(ws) = 1 THEN ws[1]
    ELSE ws[1] \o <<" ">> \o Join(Tail(ws))

(***************************************************************************)
(* bip39_words.extract_english_words                                       *)
(***************************************************************************)
\* extract_english_words without the .lower()
extract_english_words_noLower(text) ==
    LET english_only == ReSubNonLetters(text)
        parts == Split(english_only)
    IN  SelectSeq(parts, LAMBDA word : Strip(word) # <<>>)

extract_english_words(text) ==
    LET english_only == ReSubNonLetters(text)
        parts == Split(english_only)
        kept == SelectSeq(parts, LAMBDA word : Strip(word) # <<>>)
    IN  [i \in 1..Len(kept) |-> Lower(kept[i])]

(***************************************************************************)
(* bip39_words.is_potential_seed_phrase                                    *)
(***************************************************************************)
\* The loop over words keeping consecutive_count and max_consecutive.
RECURSIVE MaxConsecutiveFrom(_, _, _, _)
MaxConsecutiveFrom(ws, D, consecutive_count, max_consecutive) ==
    IF ws = <<>> THEN max_consecutive
    ELSE IF Head(ws) \in D
         THEN MaxConsecutiveFrom(Tail(ws), D, consecutive_count + 1,
                  IF consecutive_count + 1 > max_consecutive
                  THEN consecutive_count + 1 ELSE max_consecutive)
         ELSE MaxConsecutiveFrom(Tail(ws), D, 0, max_consecutive)

MaxConsecutive(ws, D) == MaxConsecutiveFrom(ws, D, 0, 0)

\* words[i:i+MIN_SEED_WORDS] for the 0-based index i of range(len(words) - MIN + 1)
Window(ws, i) == SubSeq(ws, i + 1, i + MIN_SEED_WORDS)

\* range(len(words) - MIN_SEED_WORDS + 1)
WindowStarts(ws) == 0..(Len(ws) - MIN_SEED_WORDS)

\* the window threshold with the factor 0.9 left out
ReachesWindowThreshold_full(matched_count) == matched_count >= MIN_SEED_WORDS

\* the window threshold floored to an integer (int(MIN_SEED_WORDS * 0.9))
ReachesWindowThreshold_floored(matched_count) ==
    matched_count >= (MIN_SEED_WORDS * 9) \div 10

\* matched_count >= MIN_SEED_WORDS * 0.9, in exact arithmetic
ReachesWindowThreshold(matched_count) == matched_count * 10 >= MIN_SEED_WORDS * 9

\* the sliding-window loop returns True at the first dense window
HasDenseWindow(ws, D) ==
    \E i \in WindowStarts(ws) : ReachesWindowThreshold(Len(Filter(Window(ws, i), D)))

\* the density computed with integer division (len(matches) // len(words))
HasHighDensity_intDiv(ws, D) ==
    LET bip39_matches == Filter(ws, D)
    IN  /\ Len(bip39_matches) >= MIN_SEED_WORDS
        /\ 2 * (Len(bip39_matches) \div Len(ws)) >= 1

\* len(bip39_matches) >= MIN and len(bip39_matches) / len(words) >= 0.5
HasHighDensity(ws, D) ==
    LET bip39_matches == Filter(ws, D)
    IN  /\ Len(bip39_matches) >= MIN_SEED_WORDS
        /\ 2 * Len(bip39_matches) >= Len(ws)

\* is_potential_seed_phrase without the early return on len(bip39_matches)
is_potential_seed_phrase_noHitsReject(text, bip39_words) ==
    LET words == extract_english_words(text)
    IN  IF Len(words) < MIN_SEED_WORDS THEN FALSE
        ELSE IF MaxConsecutive(words, bip39_words) >= MIN_SEED_WORDS THEN TRUE
        ELSE IF HasDenseWindow(words, bip39_words) THEN TRUE
        ELSE IF HasHighDensity(words, bip39_words) THEN TRUE
        ELSE FALSE

is_potential_seed_phrase(text, bip39_words) ==
    LET words == extract_english_words(text)
        bip39_matches == Filter(words, bip39_words)
    IN  IF Len(words) < MIN_SEED_WORDS THEN FALSE
        ELSE IF Len(bip39_matches) < MIN_SEED_WORDS THEN FALSE
        ELSE IF MaxConsecutive(words, bip39_words) >= MIN_SEED_WORDS THEN TRUE
        ELSE IF HasDenseWindow(words, bip39_words) THEN TRUE
        ELSE IF HasHighDensity(words, bip39_words) THEN TRUE
        ELSE FALSE

(***************************************************************************)
(* bip39_words.extract_seed_phrases                                        *)
(***************************************************************************)
\* Method 1: the loop collecting runs of consecutive dictionary words, with
\* the check of the last run after the loop.
RECURSIVE ContiguousPhrasesFrom(_, _, _, _)
ContiguousPhrasesFrom(ws, D, current_phrase, seed_phrases) ==
    IF ws = <<>>
    THEN IF Len(current_phrase) >= MIN_SEED_WORDS
         THEN Append(seed_phrases, Join(current_phrase))
         ELSE seed_phrases
    ELSE IF Head(ws) \in D
         THEN ContiguousPhrasesFrom(Tail(ws), D, Append(current_phrase, Head(ws)),
                                    seed_phrases)
         ELSE ContiguousPhrasesFrom(Tail(ws), D, <<>>,
                  IF Len(current_phrase) >= MIN_SEED_WORDS
                  THEN Append(seed_phrases, Join(current_phrase))
                  ELSE seed_phrases)

ContiguousPhrases(ws, D) == ContiguousPhrasesFrom(ws, D, <<>>, <<>>)

\* Method 2 joining the whole window instead of its matched words
WindowPhrases_wholeWindow(ws, D) ==
    { Join(Window(ws, i)) :
        i \in { j \in WindowStarts(ws) :
                  ReachesWindowThreshold(Len(Filter(Window(ws, j), D))) } }

\* Method 2: the phrases appended by the sliding-window loop
WindowPhrases(ws, D) ==
    { Join(Filter(Window(ws, i), D)) :
        i \in { j \in WindowStarts(ws) :
                  ReachesWindowThreshold(Len(Filter(Window(ws, j), D))) } }

\* list(set(seed_phrases)): the order of the returned list is unspecified, the
\* result is modelled as the set of its elements.
extract_seed_phrases(text, bip39_words) ==
    LET words == extract_english_words(text)
    IN  IF Len(words) < MIN_SEED_WORDS THEN {}
        ELSE Range(ContiguousPhrases(words, bip39_words))
                 \cup WindowPhrases(words, bip39_words)

(***************************************************************************)
(* State.                                                                  *)
(***************************************************************************)
VARIABLES
    mask,            \* how the text was typed: mask[i] = TRUE iff the i-th word
                     \* typed is a word of the list (input bookkeeping only)
    text,            \* the text argument (a comment text, a test phrase)
    bip39_words,     \* the dictionary argument / self.bip39_words
    called,          \* the functions of bip39_words.py that have returned
    words,           \* value returned by extract_english_words
    is_seed,         \* value returned by is_potential_seed_phrase
    phrases,         \* value returned by extract_seed_phrases, as a set
    file,            \* the word-list file at config.BIP39_WORDLIST_FILE
    load_outcome,    \* outcome of load_bip39_words
    pc,              \* where the process stands (main / YouTubeScamDetector)
    comments,        \* comments of the channel still to be checked
    detected_scams,  \* scan_and_delete's detected_scams
    last_scan_time,  \* self.last_scan_time
    fetch_pc,        \* where get_video_comments stands
    page_count,      \* get_video_comments' page_count
    response,        \* the page returned by the last commentThreads().list
    video_comments,  \* get_video_comments' comments (their published_at)
    scan_updated,    \* update_scan_time: "no" before the call, then whether
                     \* the timestamp file was "written" or the write "failed"
    choice,          \* the option entered last at the menu of scan_and_delete
    last_input,      \* what the last console input was
    selected,        \* the valid_indices entered so far under option 2
    delete_calls,    \* the delete_comment calls: comment id and value returned
    deleted_comments \* scan_and_delete's deleted_comments

vars == <<mask, text, bip39_words, called, words, is_seed, phrases,
          file, load_outcome, pc, comments, detected_scams,
          last_scan_time, fetch_pc, page_count, response, video_comments,
          scan_updated, choice, last_input, selected, delete_calls,
          deleted_comments>>

deleteVars == <<scan_updated, choice, last_input, selected, delete_calls,
                deleted_comments>>

\* scan_and_delete before its scan is over
NoDelete ==
    /\ scan_updated = "no"
    /\ choice = "none"
    /\ last_input = "none"
    /\ selected = {}
    /\ delete_calls = <<>>
    /\ deleted_comments = 0

fetchVars == <<last_scan_time, fetch_pc, page_count, response, video_comments>>

\* get_last_scan_time() returned None
NoLastScan == 0
NoResponse == [items |-> <<>>, nextPageToken |-> FALSE]

\* the variables of get_video_comments in a specification that does not run it
NoFetch ==
    /\ last_scan_time = NoLastScan
    /\ fetch_pc = "none"
    /\ page_count = 0
    /\ response = NoResponse
    /\ video_comments = <<>>

processVars == <<file, load_outcome, pc, comments, detected_scams>>

NotLoaded == [raised |-> FALSE, value |-> {}]
NoFile == [kind |-> "missing", content |-> <<>>]

\* the process variables of a specification that runs no process
NoProcess ==
    /\ file = NoFile
    /\ load_outcome = NotLoaded
    /\ pc = "none"
    /\ comments = <<>>
    /\ detected_scams = <<>>

(***************************************************************************)
(* Input texts of the detector: a phrase of dictionary words, typed with   *)
(* mixed case and separated by blanks, digits and punctuation, in which    *)
(* up to MaxNoise positions hold a word that is not in the dictionary,     *)
(* optionally followed by a tail of non-dictionary words.                  *)
(***************************************************************************)
\* the word list (english.txt), reduced to three words
BIP39 == { <<"a", "b">>, <<"c">>, <<"b", "a">> }

\* how the dictionary words are typed at positions 1, 2, 3, 1, ...
TypedWords == << <<"a", "b">>, <<"C">>, <<"b", "A">> >>
\* a word that is not in the list
TypedNoise == <<"x">>
\* what separates position i from position i + 1
TypedSeparators == << <<" ">>, <<"7">>, <<",", " ">> >>

Cycle(seq, i) == seq[((i - 1) % Len(seq)) + 1]

\* the text typed for a mask, from position i on
RECURSIVE TypeFrom(_, _)
TypeFrom(m, i) ==
    IF i > Len(m) THEN <<>>
    ELSE (IF m[i] THEN Cycle(TypedWords, i) ELSE TypedNoise)
         \o (IF i < Len(m) THEN Cycle(TypedSeparators, i) ELSE <<>>)
         \o TypeFrom(m, i + 1)

\* the positions of a phrase of n words that hold a foreign word
NoisePositions(n) ==
    { P \in SUBSET (1..n) : Cardinality(P) <= MaxNoise }

PhraseMasks ==
    UNION { { [i \in 1..n |-> i \notin P] : P \in NoisePositions(n) } :
              n \in 0..MaxTokens }

Masks ==
    { m \o [i \in 1..t |-> FALSE] : m \in PhraseMasks, t \in {0, TrailingNoise} }

\* the masks of a phrase typed without any foreign word
CleanMasks == { [i \in 1..n |-> TRUE] : n \in 0..MaxTokens }

(***************************************************************************)
(* Spec: is_potential_seed_phrase and extract_seed_phrases applied to one  *)
(* text and one dictionary, in the order of the test loop of               *)
(* bip39_words.py.  extract_seed_phrases is a module-level function of its *)
(* own and is applied whatever the classification was.  The dictionary is  *)
(* the word list, or, for the clean phrases, the empty set that a failed   *)
(* load returns.                                                           *)
(***************************************************************************)
Init ==
    /\ mask \in Masks
    /\ text = TypeFrom(mask, 1)
    /\ bip39_words \in (IF mask \in CleanMasks THEN {BIP39, {}} ELSE {BIP39})
    /\ called = {}
    /\ words = <<>>
    /\ is_seed = FALSE
    /\ phrases = {}
    /\ NoProcess
    /\ NoFetch
    /\ NoDelete

IsPotentialSeedPhrase ==
    /\ "is_potential_seed_phrase" \notin called
    /\ called' = called \cup {"is_potential_seed_phrase"}
    /\ is_seed' = is_potential_seed_phrase(text, bip39_words)
    /\ UNCHANGED <<mask, text, bip39_words, words, phrases>>
    /\ UNCHANGED processVars
    /\ UNCHANGED fetchVars
    /\ UNCHANGED deleteVars

ExtractSeedPhrases ==
    /\ "is_potential_seed_phrase" \in called
    /\ "extract_seed_phrases" \notin called
    /\ called' = called \cup {"extract_seed_phrases"}
    /\ phrases' = extract_seed_phrases(text, bip39_words)
    /\ UNCHANGED <<mask, text, bip39_words, words, is_seed>>
    /\ UNCHANGED processVars
    /\ UNCHANGED fetchVars
    /\ UNCHANGED deleteVars

Next == IsPotentialSeedPhrase \/ ExtractSeedPhrases

Spec == Init /\ [][Next]_vars

(***************************************************************************)
(* SpecTokenizer: extract_english_words applied to one raw text.           *)
(***************************************************************************)
\* a lowercase and an uppercase letter, two whitespace characters, a digit
\* and a CJK character
TokenizerChars == {"a", "B", " ", "\n", "7", "zh"}

RawTexts == UNION { [1..n -> TokenizerChars] : n \in 0..MaxChars }

InitTokenizer ==
    /\ text \in RawTexts
    /\ mask = <<>>
    /\ bip39_words = {}
    /\ called = {}
    /\ words = <<>>
    /\ is_seed = FALSE
    /\ phrases = {}
    /\ NoProcess
    /\ NoFetch
    /\ NoDelete

ExtractEnglishWords ==
    /\ "extract_english_words" \notin called
    /\ called' = called \cup {"extract_english_words"}
    /\ words' = extract_english_words(text)
    /\ UNCHANGED <<mask, text, bip39_words, is_seed, phrases>>
    /\ UNCHANGED processVars
    /\ UNCHANGED fetchVars
    /\ UNCHANGED deleteVars

NextTokenizer == ExtractEnglishWords

SpecTokenizer == InitTokenizer /\ [][NextTokenizer]_vars

(***************************************************************************)
(* SpecLoader: load_bip39_words applied to one word-list file.             *)
(***************************************************************************)
FileChars == {"a", "B", " ", "\n"}

FileContents == UNION { [1..n -> FileChars] : n \in 0..MaxFileChars }

Files ==
    {NoFile} \cup [kind : {"unreadable", "ok"}, content : FileContents]

InitLoader ==
    /\ file \in Files
    /\ load_outcome = NotLoaded
    /\ pc = "none"
    /\ comments = <<>>
    /\ detected_scams = <<>>
    /\ mask = <<>>
    /\ text = <<>>
    /\ bip39_words = {}
    /\ called = {}
    /\ words = <<>>
    /\ is_seed = FALSE
    /\ phrases = {}
    /\ NoFetch
    /\ NoDelete

LoadBip39Words ==
    /\ "load_bip39_words" \notin called
    /\ called' = called \cup {"load_bip39_words"}
    /\ load_outcome' = load_bip39_words(file)
    /\ UNCHANGED <<mask, text, bip39_words, words, is_seed, phrases>>
    /\ UNCHANGED <<file, pc, comments, detected_scams>>
    /\ UNCHANGED fetchVars
    /\ UNCHANGED deleteVars

NextLoader == LoadBip39Words

SpecLoader == InitLoader /\ [][NextLoader]_vars

(***************************************************************************)
(* SpecDetector: main() constructs YouTubeScamDetector, whose __init__     *)
(* loads the word list, and scan_and_delete checks the comments one by one.*)
(***************************************************************************)
\* english.txt holding the three words, one of them with blanks around it
WordListContent ==
    <<"a", "b", "\n", "c", "\n", " ", "b", "a", " ", "\n">>

DetectorFiles ==
    { NoFile,
      [kind |-> "unreadable", content |-> WordListContent],
      [kind |-> "ok", content |-> WordListContent],
      [kind |-> "ok", content |-> <<>>],
      [kind |-> "ok", content |-> <<" ", "\n", "\n">>] }

\* comment texts: a clean phrase of MIN words, the phrase with its fourth word
\* replaced, the phrase with a foreign word put in, and a short remark
CommentMasks ==
    { [i \in 1..MIN_SEED_WORDS |-> TRUE],
      [i \in 1..MIN_SEED_WORDS |-> i # 4],
      [i \in 1..(MIN_SEED_WORDS + 1) |-> i # 4],
      <<FALSE, TRUE, FALSE>> }

CommentTexts == { TypeFrom(m, 1) : m \in CommentMasks }

\* the comments get_video_comments returns, the i-th with id i
CommentLists ==
    UNION { { [i \in 1..n |-> [id |-> i, text |-> texts[i]]] :
                texts \in [1..n -> CommentTexts] } : n \in 0..MaxComments }

InitDetector ==
    /\ pc = "main"
    /\ file \in DetectorFiles
    /\ load_outcome = NotLoaded
    /\ comments \in CommentLists
    /\ detected_scams = <<>>
    /\ mask = <<>>
    /\ text = <<>>
    /\ bip39_words = {}
    /\ called = {}
    /\ words = <<>>
    /\ is_seed = FALSE
    /\ phrases = {}
    /\ NoFetch
    /\ NoDelete

\* __init__ with the "if not self.bip39_words: sys.exit(1)" left out
InitExits_never(loaded) == FALSE

\* YouTubeScamDetector.__init__: if not self.bip39_words: ... sys.exit(1)
InitExits(loaded) == loaded = {}

\* main() -> YouTubeScamDetector(): the word list is loaded; an empty list
\* ends the process (SystemExit), and an exception out of the constructor
\* ends it in main's handler (sys.exit(1)).
Construct ==
    /\ pc = "main"
    /\ LET outcome == load_bip39_words(file)
       IN  /\ load_outcome' = outcome
           /\ called' = called \cup {"load_bip39_words"}
           /\ IF outcome.raised
              THEN /\ pc' = "exited"
                   /\ UNCHANGED bip39_words
              ELSE /\ bip39_words' = outcome.value
                   /\ pc' = IF InitExits(outcome.value) THEN "exited" ELSE "scanning"
    /\ UNCHANGED <<mask, text, words, is_seed, phrases>>
    /\ UNCHANGED <<file, comments, detected_scams>>
    /\ UNCHANGED fetchVars
    /\ UNCHANGED deleteVars

\* scan_and_delete, one turn of "for comment in comments": is_scam_comment
\* classifies the text and extracts the phrases of a flagged text, and the
\* flagged comment is appended to detected_scams with its phrases.
ScanComment ==
    /\ pc = "scanning"
    /\ comments # <<>>
    /\ LET comment_id == Head(comments).id
           comment_text == Head(comments).text
           contains_seed_phrase == is_potential_seed_phrase(comment_text, bip39_words)
           seed_phrases == extract_seed_phrases(comment_text, bip39_words)
       IN  /\ text' = comment_text
           /\ is_seed' = contains_seed_phrase
           /\ IF contains_seed_phrase
              THEN /\ phrases' = seed_phrases
                   /\ called' = called \cup {"is_potential_seed_phrase",
                                             "extract_seed_phrases"}
                   /\ detected_scams' = Append(detected_scams,
                          [id |-> comment_id, text |-> comment_text,
                           seed_phrases |-> seed_phrases])
              ELSE /\ called' = called \cup {"is_potential_seed_phrase"}
                   /\ UNCHANGED <<phrases, detected_scams>>
    /\ comments' = Tail(comments)
    /\ UNCHANGED <<mask, bip39_words, words, file, load_outcome, pc>>
    /\ UNCHANGED fetchVars
    /\ UNCHANGED deleteVars

\* what scan_and_delete leaves alone once its scan is over
scanVars == <<mask, text, bip39_words, called, words, is_seed, phrases,
              file, load_outcome, comments, detected_scams>>

\* update_scan_time: the timestamp file is written, or the write raises, the
\* exception is logged and None is returned
ScanTimeOutcomes == {"written", "failed"}

\* scan_and_delete after "for video in videos": new_scan_time =
\* update_scan_time(), the statistics, and "if detected_scams:" opens the menu
FinishScan ==
    /\ pc = "scanning"
    /\ comments = <<>>
    /\ \E outcome \in ScanTimeOutcomes : scan_updated' = outcome
    /\ pc' = IF detected_scams # <<>> THEN "menu" ELSE "report"
    /\ UNCHANGED scanVars
    /\ UNCHANGED <<choice, last_input, selected, delete_calls, deleted_comments>>
    /\ UNCHANGED fetchVars

\* "deleted_comments += 1" whatever delete_comment returned
CountDeleted_all(outcomes) == Len(outcomes)

\* if self.delete_comment(scam["id"]): deleted_comments += 1
CountDeleted(outcomes) == Cardinality({ k \in DOMAIN outcomes : outcomes[k] })

\* self.delete_comment(scam["id"]) for scam = detected_scams[idx-1], idx in
\* indices, with what each call returned: True, or False after an exception
DeleteCallsOf(scams, indices, outcomes) ==
    [k \in DOMAIN indices |-> [id |-> scams[indices[k]].id, ok |-> outcomes[k]]]

\* choice == '1': delete_comment on every element of detected_scams
ChooseDeleteAll ==
    /\ pc = "menu"
    /\ choice' = "1"
    /\ last_input' = "1"
    /\ \E outcomes \in [1..Len(detected_scams) -> BOOLEAN] :
          /\ delete_calls' = delete_calls \o
                 DeleteCallsOf(detected_scams,
                               [k \in 1..Len(detected_scams) |-> k], outcomes)
          /\ deleted_comments' = deleted_comments + CountDeleted(outcomes)
    /\ pc' = "report"
    /\ UNCHANGED scanVars
    /\ UNCHANGED <<scan_updated, selected>>
    /\ UNCHANGED fetchVars

\* choice == '2': the prompt for the numbers of the comments to delete
ChooseSelective ==
    /\ pc = "menu"
    /\ choice' = "2"
    /\ last_input' = "2"
    /\ pc' = "select"
    /\ UNCHANGED scanVars
    /\ UNCHANGED <<scan_updated, selected, delete_calls, deleted_comments>>
    /\ UNCHANGED fetchVars

\* choice == '3': nothing is deleted
ChooseNothing ==
    /\ pc = "menu"
    /\ choice' = "3"
    /\ last_input' = "3"
    /\ pc' = "report"
    /\ UNCHANGED scanVars
    /\ UNCHANGED <<scan_updated, selected, delete_calls, deleted_comments>>
    /\ UNCHANGED fetchVars

\* any other choice: the menu is shown again
InvalidChoice ==
    /\ pc = "menu"
    /\ choice' = "invalid"
    /\ last_input' = "invalid"
    /\ UNCHANGED pc
    /\ UNCHANGED scanVars
    /\ UNCHANGED <<scan_updated, selected, delete_calls, deleted_comments>>
    /\ UNCHANGED fetchVars

\* to_delete.lower() == 'q'
SelectQuit ==
    /\ pc = "select"
    /\ last_input' = "q"
    /\ pc' = "report"
    /\ UNCHANGED scanVars
    /\ UNCHANGED <<scan_updated, choice, selected, delete_calls, deleted_comments>>
    /\ UNCHANGED fetchVars

\* int(idx.strip()) raises ValueError: the prompt is shown again
SelectBadFormat ==
    /\ pc = "select"
    /\ last_input' = "bad_format"
    /\ UNCHANGED pc
    /\ UNCHANGED scanVars
    /\ UNCHANGED <<scan_updated, choice, selected, delete_calls, deleted_comments>>
    /\ UNCHANGED fetchVars

\* valid_indices = [idx for idx in indices if 1 <= idx <= len(detected_scams)]
ValidIndices(indices, scams) ==
    SelectSeq(indices, LAMBDA idx : 1 <= idx /\ idx <= Len(scams))

\* the numbers entered at one prompt: none, or up to MaxEntered of them, in
\* range or one off either end
EnteredIndices ==
    UNION { [1..n -> 0..(Len(detected_scams) + 1)] : n \in 0..MaxEntered }

\* the numbers parse: without a valid one the prompt is shown again; else
\* delete_comment runs on each valid one, and "remaining" decides whether the
\* user is asked to go on
SelectIndices ==
    /\ pc = "select"
    /\ \E indices \in EnteredIndices :
          LET valid_indices == ValidIndices(indices, detected_scams)
              remaining == { i \in 1..Len(detected_scams) :
                               i \notin Range(valid_indices) }
          IN  IF valid_indices = <<>>
              THEN /\ last_input' = "no_valid"
                   /\ UNCHANGED <<pc, selected, delete_calls, deleted_comments>>
              ELSE /\ Len(delete_calls) + Len(valid_indices) <= MaxDeleteCalls
                   /\ last_input' = "indices"
                   /\ selected' = selected \cup Range(valid_indices)
                   /\ \E outcomes \in [1..Len(valid_indices) -> BOOLEAN] :
                         /\ delete_calls' = delete_calls \o
                                DeleteCallsOf(detected_scams, valid_indices, outcomes)
                         /\ deleted_comments' =
                                deleted_comments + CountDeleted(outcomes)
                   /\ pc' = IF remaining = {} THEN "report" ELSE "continue"
    /\ UNCHANGED scanVars
    /\ UNCHANGED <<scan_updated, choice>>
    /\ UNCHANGED fetchVars

\* continue_delete = input(...): 'y' shows the prompt again, anything else
\* leaves the loop
ContinueDelete ==
    /\ pc = "continue"
    /\ \E answer \in {"y", "n"} :
          /\ last_input' = answer
          /\ pc' = IF answer = "y" THEN "select" ELSE "report"
    /\ UNCHANGED scanVars
    /\ UNCHANGED <<scan_updated, choice, selected, delete_calls, deleted_comments>>
    /\ UNCHANGED fetchVars

\* input() raises (end of input, Ctrl-C): main's handlers end the process
InputFails ==
    /\ pc \in {"menu", "select", "continue"}
    /\ pc' = "exited"
    /\ UNCHANGED scanVars
    /\ UNCHANGED deleteVars
    /\ UNCHANGED fetchVars

\* "if deleted_comments > 0: print(...)" and the end of scan_and_delete
Report ==
    /\ pc = "report"
    /\ pc' = "finished"
    /\ UNCHANGED scanVars
    /\ UNCHANGED deleteVars
    /\ UNCHANGED fetchVars

NextDetector ==
    \/ Construct
    \/ ScanComment
    \/ FinishScan
    \/ ChooseDeleteAll
    \/ ChooseSelective
    \/ ChooseNothing
    \/ InvalidChoice
    \/ SelectQuit
    \/ SelectBadFormat
    \/ SelectIndices
    \/ ContinueDelete
    \/ InputFails
    \/ Report

SpecDetector == InitDetector /\ [][NextDetector]_vars

(***************************************************************************)
(* SpecComments: YouTubeScamDetector.get_video_comments for one video.     *)
(*                                                                         *)
(* A comment is its publishedAt, a timestamp; timestamps of one format     *)
(* compare as strings in the order of time, and are numbered here.  The    *)
(* pages are what the API returns, one page per request; self.youtube is   *)
(* set (scan_and_delete authenticates first).                              *)
(***************************************************************************)
\* the time of the last scan, when there was one
LastScan == 2

\* published before, at, and after the time of the last scan
PublishedTimes == {1, 2, 3}

\* response["items"]: a page of new comments, a page of old comments, a mixed
\* page, an empty page
Pages == { <<3>>, <<1, 2>>, <<3, 1>>, <<>> }

\* comments[-n:]
LastItems(seq, n) ==
    SubSeq(seq, IF Len(seq) > n THEN Len(seq) - n + 1 ELSE 1, Len(seq))

\* the comments a page adds: those not skipped by "continue"
NewComments(items, last) ==
    SelectSeq(items, LAMBDA published_at : ~(last # NoLastScan /\ published_at <= last))

\* self.last_scan_time and all(comment["published_at"] <= self.last_scan_time
\*     for comment in comments[-config.MAX_RESULTS_PER_PAGE:])
StopsEarly(collected, last) ==
    /\ last # NoLastScan
    /\ \A k \in DOMAIN LastItems(collected, MAX_RESULTS_PER_PAGE) :
           LastItems(collected, MAX_RESULTS_PER_PAGE)[k] <= last

InitComments ==
    /\ last_scan_time \in {NoLastScan, LastScan}
    /\ fetch_pc = "loop"
    /\ page_count = 0
    /\ response = NoResponse
    /\ video_comments = <<>>
    /\ mask = <<>>
    /\ text = <<>>
    /\ bip39_words = {}
    /\ called = {}
    /\ words = <<>>
    /\ is_seed = FALSE
    /\ phrases = {}
    /\ NoProcess
    /\ NoDelete

\* one turn of the while loop: a page is requested and returned
FetchPage ==
    /\ fetch_pc = "loop"
    /\ page_count < MAX_PAGES_PER_VIDEO
    /\ \E items \in Pages, next \in BOOLEAN :
          LET collected == video_comments \o NewComments(items, last_scan_time)
          IN  /\ page_count' = page_count + 1
              /\ response' = [items |-> items, nextPageToken |-> next]
              /\ video_comments' = collected
              /\ fetch_pc' = IF ~next THEN "returned"
                             ELSE IF StopsEarly(collected, last_scan_time)
                                  THEN "returned"
                                  ELSE "loop"
    /\ UNCHANGED last_scan_time
    /\ UNCHANGED <<mask, text, bip39_words, called, words, is_seed, phrases>>
    /\ UNCHANGED processVars
    /\ UNCHANGED deleteVars

\* one turn of the while loop in which request.execute() raises: the except
\* clause returns []
FetchFails ==
    /\ fetch_pc = "loop"
    /\ page_count < MAX_PAGES_PER_VIDEO
    /\ page_count' = page_count + 1
    /\ video_comments' = <<>>
    /\ fetch_pc' = "returned"
    /\ UNCHANGED <<last_scan_time, response>>
    /\ UNCHANGED <<mask, text, bip39_words, called, words, is_seed, phrases>>
    /\ UNCHANGED processVars
    /\ UNCHANGED deleteVars

\* the while condition fails: page_count has reached MAX_PAGES_PER_VIDEO
PageLimitReached ==
    /\ fetch_pc = "loop"
    /\ page_count >= MAX_PAGES_PER_VIDEO
    /\ fetch_pc' = "returned"
    /\ UNCHANGED <<last_scan_time, page_count, response, video_comments>>
    /\ UNCHANGED <<mask, text, bip39_words, called, words, is_seed, phrases>>
    /\ UNCHANGED processVars
    /\ UNCHANGED deleteVars

NextComments == FetchPage \/ FetchFails \/ PageLimitReached

SpecComments == InitComments /\ [][NextComments]_vars

(***************************************************************************)
(* Properties of the detector functions, stated on how the text was typed. *)
(***************************************************************************)
\* the words of the list as they stand in english.txt, positions 1, 2, 3, 1, ...
ListedWords == << <<"a", "b">>, <<"c">>, <<"b", "a">> >>

Classified == "is_potential_seed_phrase" \in called
Extracted == "extract_seed_phrases" \in called

\* the i-th token of the text is a member of the dictionary
MemberAt(i) == i \in DOMAIN mask /\ mask[i] /\ Cycle(ListedWords, i) \in bip39_words
NonMemberAt(i) == i \in DOMAIN mask /\ ~MemberAt(i)

\* number of tokens that are dictionary members, with repetition
Hits == Cardinality({ i \in DOMAIN mask : MemberAt(i) })

\* number of members in the MIN-token window starting at token i
WindowHits(i) == Cardinality({ j \in i..(i + MIN_SEED_WORDS - 1) : MemberAt(j) })

\* the starts of the windows of exactly MIN consecutive tokens
Windows == 1..(Len(mask) - MIN_SEED_WORDS + 1)

\* ceil(MIN * 0.9) members in some window of MIN tokens
SomeDenseWindow == \E i \in Windows : WindowHits(i) * 10 >= MIN_SEED_WORDS * 9

\* MIN consecutive tokens starting at i are all members
RunAt(i) == \A j \in i..(i + MIN_SEED_WORDS - 1) : MemberAt(j)
SomeRun == \E i \in Windows : RunAt(i)

\* the listed words at positions i .. i + n - 1, joined by single spaces
RECURSIVE PhraseAt(_, _)
PhraseAt(i, n) ==
    IF n = 0 THEN <<>>
    ELSE IF n = 1 THEN Cycle(ListedWords, i)
    ELSE PhraseAt(i, n - 1) \o <<" ">> \o Cycle(ListedWords, i + n - 1)

\* the maximal blank-free pieces of a phrase
WordsOf(p) ==
    LET starts == { a \in 1..Len(p) : p[a] # " " /\ (a = 1 \/ p[a - 1] = " ") }
        end(a) == CHOOSE b \in a..Len(p) :
                      /\ \A k \in a..b : p[k] # " "
                      /\ (b = Len(p) \/ p[b + 1] = " ")
    IN  { SubSeq(p, a, end(a)) : a \in starts }

\* C1: whenever extract_seed_phrases returns at least one phrase for a text
\* and a dictionary, is_potential_seed_phrase returned True for them.
C1_ExtractionImpliesClassification ==
    (Classified /\ Extracted /\ phrases # {}) => is_seed

\* C2 as stated: a window of MIN tokens with at least ceil(MIN * 0.9) members
\* makes is_potential_seed_phrase return True.
C2_DenseWindowClassifies ==
    (Classified /\ SomeDenseWindow) => is_seed

\* C2 as amended: a text with at least MIN members in total and a window of
\* MIN tokens with at least ceil(MIN * 0.9) members classifies True, also
\* without a run of MIN members; a MIN-token text with MIN - 1 members
\* classifies False.
C2_DenseWindowWithEnoughHits ==
    Classified =>
        /\ (Hits >= MIN_SEED_WORDS /\ SomeDenseWindow) => is_seed
        /\ (Len(mask) = MIN_SEED_WORDS /\ Hits = MIN_SEED_WORDS - 1) => ~is_seed

\* only the dense window decides: no run of MIN, density below one half
C2_Witness ==
    /\ Classified /\ is_seed
    /\ Hits >= MIN_SEED_WORDS /\ SomeDenseWindow
    /\ ~SomeRun
    /\ 2 * Hits < Len(mask)

\* C3: with fewer than MIN member tokens in the text, whatever their
\* arrangement, is_potential_seed_phrase returns False.
C3_FewerThanMinHitsIsFalse ==
    (Classified /\ Hits < MIN_SEED_WORDS) => ~is_seed

\* MIN - 1 members in a text of at least MIN tokens with a dense window
C3_Witness ==
    /\ Classified /\ ~is_seed
    /\ Hits = MIN_SEED_WORDS - 1
    /\ SomeDenseWindow

\* C4: a run of at least MIN consecutive member tokens, with any tokens
\* before or after it, makes is_potential_seed_phrase return True.
C4_RunClassifies ==
    (Classified /\ SomeRun) => is_seed

\* a run of exactly MIN members between non-members, density below one half
C4_Witness ==
    /\ Classified /\ is_seed
    /\ \E i \in Windows : RunAt(i) /\ NonMemberAt(i - 1) /\ NonMemberAt(i + MIN_SEED_WORDS)
    /\ 2 * Hits < Len(mask)

\* C5: for a text of exactly MIN tokens, all of them members,
\* extract_seed_phrases returns exactly one phrase, the tokens joined by single
\* spaces in their order.
C5_ExactPhraseExtractedOnce ==
    (Extracted /\ Len(mask) = MIN_SEED_WORDS /\ Hits = MIN_SEED_WORDS)
        => phrases = { PhraseAt(1, MIN_SEED_WORDS) }

C5_Witness ==
    /\ Extracted
    /\ Len(mask) = MIN_SEED_WORDS /\ Hits = MIN_SEED_WORDS
    /\ Cardinality(phrases) = 1

\* C6: MIN consecutive members between non-member tokens classify True, the
\* extraction contains their space-joined phrase, and no extracted phrase
\* holds a token that is not a member of the dictionary.
C6_EmbeddedPhraseIsolated ==
    (Classified /\ Extracted) =>
        /\ \A i \in Windows :
              (RunAt(i) /\ NonMemberAt(i - 1) /\ NonMemberAt(i + MIN_SEED_WORDS))
                  => (is_seed /\ PhraseAt(i, MIN_SEED_WORDS) \in phrases)
        /\ \A p \in phrases : WordsOf(p) \subseteq bip39_words

C6_Witness ==
    /\ Classified /\ Extracted /\ is_seed
    /\ \E i \in Windows :
          /\ RunAt(i) /\ NonMemberAt(i - 1) /\ NonMemberAt(i + MIN_SEED_WORDS)
          /\ PhraseAt(i, MIN_SEED_WORDS) \in phrases

\* C10: at least MIN tokens, at least MIN members and members at least half
\* of the tokens make is_potential_seed_phrase return True, also without a run
\* of MIN members and without a dense window.
C10_DensityFallbackClassifies ==
    (Classified /\ Len(mask) >= MIN_SEED_WORDS /\ Hits >= MIN_SEED_WORDS
         /\ 2 * Hits >= Len(mask)) => is_seed

\* only the density decides: no run of MIN, no dense window
C10_Witness ==
    /\ Classified /\ is_seed
    /\ Hits >= MIN_SEED_WORDS /\ 2 * Hits >= Len(mask)
    /\ ~SomeRun /\ ~SomeDenseWindow

\* number of words of a space-joined phrase
WordCount(p) == Cardinality({ k \in DOMAIN p : p[k] = " " }) + 1

\* no window of MIN tokens holds more than floor(MIN * 0.9) members
NoWindowAboveFloor ==
    \A i \in Windows : WindowHits(i) <= (MIN_SEED_WORDS * 9) \div 10

\* C11: the window threshold is not floored.  A text without a run of MIN
\* members, whose windows of MIN tokens hold at most 10 members each and whose
\* member density is below one half classifies False, and windows of at most
\* 10 of 12 members make extract_seed_phrases emit nothing: no extracted
\* phrase has fewer than ceil(MIN * 0.9) words.
C11_ThresholdNotFloored ==
    /\ (Classified /\ ~SomeRun /\ NoWindowAboveFloor /\ 2 * Hits < Len(mask))
           => ~is_seed
    /\ (Extracted /\ NoWindowAboveFloor) => phrases = {}
    /\ Extracted =>
           \A p \in phrases : WordCount(p) * 10 >= MIN_SEED_WORDS * 9

\* at least MIN members, a window of exactly 10 of 12, and nothing fires
C11_Witness ==
    /\ Classified /\ Extracted
    /\ ~is_seed /\ phrases = {}
    /\ Hits >= MIN_SEED_WORDS
    /\ NoWindowAboveFloor
    /\ \E i \in Windows : WindowHits(i) = (MIN_SEED_WORDS * 9) \div 10
    /\ 2 * Hits < Len(mask)

(***************************************************************************)
(* Properties of the tokenizer, stated on the characters of the text.      *)
(***************************************************************************)
\* the positions of the text that hold an ASCII letter
LetterPositions == { k \in 1..Len(text) : text[k] \in LowerLetters \cup UpperLetters }

\* a letter group: a maximal run of ASCII letters; its first position
GroupStarts == { k \in LetterPositions : k - 1 \notin LetterPositions }

GroupEnd(k) ==
    CHOOSE e \in k..Len(text) :
        /\ k..e \subseteq LetterPositions
        /\ e + 1 \notin LetterPositions

\* the first position of the i-th letter group from the left
NthGroupStart(i) ==
    CHOOSE k \in GroupStarts : Cardinality({ j \in GroupStarts : j <= k }) = i

\* d is the letter c in lower case
Folds(c, d) ==
    \/ c \in LowerLetters /\ d = c
    \/ <<c, d>> \in { <<"A", "a">>, <<"B", "b">>, <<"C", "c">> }

\* C7: every token returned by extract_english_words is non-empty and made of
\* lowercase ASCII letters only, and the tokens are the letter groups of the
\* text in their order: every other character, whitespace or not, separates.
C7_TokensAreLetterGroups ==
    "extract_english_words" \in called =>
        /\ \A i \in DOMAIN words :
              /\ words[i] # <<>>
              /\ \A k \in DOMAIN words[i] : words[i][k] \in LowerLetters
        /\ Len(words) = Cardinality(GroupStarts)
        /\ \A i \in DOMAIN words :
              LET from == NthGroupStart(i)
                  to == GroupEnd(from)
              IN  /\ Len(words[i]) = to - from + 1
                  /\ \A k \in DOMAIN words[i] : Folds(text[from + k - 1], words[i][k])

\* two letter groups with only a digit or a CJK character between them
C7_Witness ==
    /\ "extract_english_words" \in called
    /\ Len(words) >= 2
    /\ \E k \in 2..(Len(text) - 1) :
          /\ text[k] \in OtherChars
          /\ k - 1 \in LetterPositions
          /\ k + 1 \in LetterPositions
    /\ \E k \in LetterPositions : text[k] \in UpperLetters

(***************************************************************************)
(* Properties of the loader, stated on the characters of the file.         *)
(***************************************************************************)
\* positions a..b of the content lie on one line, and all that surrounds them
\* on that line is whitespace
TrimmedLineAt(a, b) ==
    LET c == file.content
        sameLine(i, j) == \A k \in i..j : c[k] # "\n"
    IN  /\ a <= b
        /\ sameLine(a, b)
        /\ c[a] \notin Whitespace
        /\ c[b] \notin Whitespace
        /\ \A k \in 1..(a - 1) : sameLine(k, a) => c[k] \in Whitespace
        /\ \A k \in (b + 1)..Len(c) : sameLine(b, k) => c[k] \in Whitespace

\* the whitespace-trimmed non-empty lines of the file, characters unchanged
TrimmedLines ==
    { SubSeq(file.content, ab[1], ab[2]) :
        ab \in { x \in (1..Len(file.content)) \X (1..Len(file.content)) :
                   TrimmedLineAt(x[1], x[2]) } }

\* C9: load_bip39_words raises nothing to its caller; it returns the empty set
\* when the file is missing or cannot be opened, read or decoded, and else
\* the set of the whitespace-trimmed non-empty lines, unchanged in case.
C9_LoadNeverRaises ==
    "load_bip39_words" \in called =>
        /\ ~load_outcome.raised
        /\ file.kind \in {"missing", "unreadable"} => load_outcome.value = {}
        /\ file.kind = "ok" => load_outcome.value = TrimmedLines

\* a file that cannot be read although it holds a word, and nothing raised
C9_WitnessUnreadable ==
    /\ "load_bip39_words" \in called
    /\ file.kind = "unreadable"
    /\ \E k \in DOMAIN file.content : file.content[k] \notin Whitespace
    /\ ~load_outcome.raised /\ load_outcome.value = {}

(***************************************************************************)
(* Properties of the detector process.                                     *)
(***************************************************************************)
\* C8: when load_bip39_words returns the empty set the construction ends the
\* process before any text is classified or extracted from, so wherever a
\* comment has been classified or phrases extracted self.bip39_words is not
\* empty.
C8_DetectionNeverOnEmptyDictionary ==
    /\ ("load_bip39_words" \in called /\ load_outcome.value = {}) =>
           /\ pc = "exited"
           /\ called = {"load_bip39_words"}
    /\ (Classified \/ Extracted) => bip39_words # {}

\* a comment flagged against the loaded word list
C8_Witness ==
    /\ pc = "scanning"
    /\ "load_bip39_words" \in called
    /\ Classified /\ Extracted /\ is_seed
    /\ bip39_words = BIP39

(***************************************************************************)
(* Properties of get_video_comments.                                       *)
(***************************************************************************)
\* the page just fetched holds comments, all of them published at or before
\* the last scan, and has a next page
StalePageWithNext ==
    /\ last_scan_time # NoLastScan
    /\ page_count > 0
    /\ response.items # <<>>
    /\ \A k \in DOMAIN response.items : response.items[k] <= last_scan_time
    /\ response.nextPageToken

\* C12: with last_scan_time set, once a fetched page holds only comments
\* published at or before last_scan_time and has a next page, the loop has
\* stopped and no further page is requested, whatever earlier pages added; and
\* never more than MAX_PAGES_PER_VIDEO pages are requested.
C12_StopsAtStalePage ==
    /\ StalePageWithNext => fetch_pc = "returned"
    /\ page_count <= MAX_PAGES_PER_VIDEO

\* the comments is_scam_comment flagged during the scan: detected_scams holds
\* them, each a text the classifier accepts with the loaded word list
FlaggedAt(i) ==
    /\ i \in DOMAIN detected_scams
    /\ is_potential_seed_phrase(detected_scams[i].text, bip39_words)

SuccessfulCalls == Cardinality({ k \in DOMAIN delete_calls : delete_calls[k].ok })

\* delete_comment only ran on flagged comments, after the scan and after
\* update_scan_time ended in one of the given ways, under option 1, or under
\* option 2 with a valid number of the comment; option 3 deleted nothing;
\* the count reported is at most the number of calls that returned True
DeletionIsSafe(updated) ==
    /\ \A k \in DOMAIN delete_calls :
          /\ pc \notin {"main", "scanning"}
          /\ comments = <<>>
          /\ scan_updated \in updated
          /\ choice \in {"1", "2"}
          /\ \E i \in DOMAIN detected_scams :
                /\ detected_scams[i].id = delete_calls[k].id
                /\ FlaggedAt(i)
                /\ choice = "2" => i \in selected
    /\ choice = "3" => delete_calls = <<>>
    /\ deleted_comments <= SuccessfulCalls

====
